---- MODULE Spec2Model ----
(***************************************************************************)
(* A model of coreapi/document.py: the immutable value types (Document,    *)
(* Object, Array, Link, Error), dotted_path_to_list, and Document.action   *)
(* as the sequence of steps the method performs.                           *)
(*                                                                         *)
(* Python values are records tagged by "kind".  Keys of a key list are     *)
(* tagged too: [t |-> "str", s |-> ...] or [t |-> "int", i |-> ...].       *)
(* An operation that can raise returns Ok(value) or Raise(exception).      *)
(***************************************************************************)
EXTENDS Integers, Sequences, FiniteSets, TLC

VARIABLES
    root,           \* the receiver of Document.action (self)
    origRoot,       \* the receiver as it was constructed
    pc,             \* position inside Document.action
    keysArg,        \* the `keys` argument as the caller passed it
    keys,           \* `keys` after line 158
    kwargs,         \* **kwargs of the call
    node,           \* local `node`
    document,       \* local `document`
    document_keys,  \* local `document_keys`
    ret,            \* local `ret`
    calls,          \* how often link._func ran in the current call
    handlerDoc,     \* the `document` argument link._func received
    outcome,        \* what the call did: nothing yet, returned a value, raised
    updated,        \* an earlier call on this root returned an updated root
    input,          \* the argument of a function applied on its own
    output          \* and what it gave

vars == <<root, origRoot, pc, keysArg, keys, kwargs, node, document,
          document_keys, ret, calls, handlerDoc, outcome, updated, input,
          output>>

\* ------------------------------------------------------------------ bounds

\* Containers nested between the root Document and the Link.
MaxDepth == 2

\* Characters of a dotted path handed to dotted_path_to_list on its own, and
\* the containers above the link in the documents it is applied to.
MaxPathLen == 6

MaxPathDepth == 1

\* Nesting depth of the raw content handed to a constructor.
MaxRawDepth == 2

\* ------------------------------------------------------------------ values

Ok(v) == [ok |-> TRUE, value |-> v]

Raise(e) == [ok |-> FALSE, exc |-> e]

None == [kind |-> "None"]

Integer(i) == [kind |-> "Integer", int |-> i]

\* A value of a type that is no Core API primitive (datetime.now() in the tests).
Foreign == [kind |-> "Foreign"]

\* Plain Python containers, as a caller may pass them to a constructor.
PlainDict(d) == [kind |-> "dict", items |-> d]

PlainList(s) == [kind |-> "list", list |-> s]

StrKey(s) == [t |-> "str", s |-> s]

IntKey(i) == [t |-> "int", i |-> i]

\* A key that is neither a string nor an int (a float, say).
BadKey == [t |-> "float"]

EmptyData == [k \in {} |-> None]

Field(name, required) == [name |-> name, required |-> required]

required(name) == Field(name, TRUE)

\* Link.__init__: url, action, transition default to ''; fields become a tuple
\* of Field.  The bound func is left out: what it returns is chosen when it runs.
LinkInit(url, action, transition, fields) ==
    [kind |-> "Link", url |-> url, action |-> action,
     transition |-> transition, fields |-> fields]

ErrorInit(messages) == [kind |-> "Error", messages |-> messages]

\* primative_types: the kinds Document.__init__ accepts as values.
primative_types ==
    {"String", "None", "Integer", "Float", "Boolean", "list", "dict",
     "Document", "Object", "Array", "Link"}

RECURSIVE _to_immutable(_)
RECURSIVE ObjectInit(_)
RECURSIVE ArrayInit(_)

\* Object.__init__.  Keys are strings throughout the model, so the key check
\* passes; the values are not checked, only coerced.
ObjectInit(data) ==
    [kind |-> "Object", data |-> [k \in DOMAIN data |-> _to_immutable(data[k])]]

\* Array.__init__.
ArrayInit(items) ==
    [kind |-> "Array", elems |-> [i \in 1..Len(items) |-> _to_immutable(items[i])]]

_to_immutable(value) ==
    IF value.kind = "dict" THEN ObjectInit(value.items)
    ELSE IF value.kind = "list" THEN ArrayInit(value.list)
    ELSE value

\* Document.__init__ with url and title strings and content a dict.
DocumentInit(url, title, content) ==
    IF \E k \in DOMAIN content : content[k].kind \notin primative_types
    THEN Raise("TypeError")
    ELSE Ok([kind |-> "Document", url |-> url, title |-> title,
             data |-> [k \in DOMAIN content |-> _to_immutable(content[k])]])

IsDict(n) == n.kind \in {"Document", "Object"}

IsContainer(n) == n.kind \in {"Document", "Object", "Array"}

\* node[key]: itypes.Dict and itypes.List index their _data; anything else in
\* the model (None, Integer, Link, Error) is not subscriptable.
GetItem(n, key) ==
    IF IsDict(n)
    THEN IF key.t = "str" /\ key.s \in DOMAIN n.data
         THEN Ok(n.data[key.s]) ELSE Raise("KeyError")
    ELSE IF n.kind = "Array"
    THEN IF key.t # "int" THEN Raise("TypeError")
         ELSE LET len == Len(n.elems)
                  i == IF key.i < 0 THEN key.i + len ELSE key.i
              IN  IF 0 <= i /\ i < len THEN Ok(n.elems[i + 1])
                  ELSE Raise("IndexError")
    ELSE Raise("TypeError")

\* ------------------------------------------------- copy-on-write updates

\* What a method call leaves behind: the receiver object after the call
\* (objects are shared by reference, so a method that wrote to self would
\* show here) and the call's result, Ok(value) or Raise(exception).
Eff(recv, res) == [recv |-> recv, res |-> res]

\* clone writing the new data into the receiver and returning it.
cloneInPlace(self, data) ==
    LET made == DocumentInit(self.url, self.title, data)
    IN  Eff(IF made.ok THEN made.value ELSE self, made)

\* clone building Document(content=data), url and title forgotten.
cloneContentOnly(self, data) == Eff(self, DocumentInit("", "", data))

\* Document.clone: a fresh Document with the receiver's url and title.
clone(self, data) == Eff(self, DocumentInit(self.url, self.title, data))

\* Position (from 1) of index i in a list of length len, 0 when out of range.
ListPos(len, i) ==
    LET j == IF i < 0 THEN i + len ELSE i
    IN  IF 0 <= j /\ j < len THEN j + 1 ELSE 0

RemoveAt(s, p) == [i \in 1..(Len(s) - 1) |-> IF i < p THEN s[i] ELSE s[i + 1]]

\* node.set(key, value): copy _data, assign, build a new container of the
\* receiver's type (through clone when the receiver has one).
Set(n, key, value) ==
    IF IsDict(n)
    THEN IF key.t # "str" THEN Eff(n, Raise("TypeError"))
         ELSE LET data == [k \in DOMAIN n.data \cup {key.s} |->
                              IF k = key.s THEN value ELSE n.data[k]]
              IN  IF n.kind = "Document" THEN clone(n, data)
                  ELSE Eff(n, Ok(ObjectInit(data)))
    ELSE IF n.kind = "Array"
    THEN IF key.t # "int" THEN Eff(n, Raise("TypeError"))
         ELSE LET p == ListPos(Len(n.elems), key.i)
              IN  IF p = 0 THEN Eff(n, Raise("IndexError"))
                  ELSE Eff(n, Ok(ArrayInit([n.elems EXCEPT ![p] = value])))
    ELSE Eff(n, Raise("AttributeError"))

\* node.delete(key): copy _data, pop, build a new container.
Delete(n, key) ==
    IF IsDict(n)
    THEN IF ~(key.t = "str" /\ key.s \in DOMAIN n.data)
         THEN Eff(n, Raise("KeyError"))
         ELSE LET data == [k \in DOMAIN n.data \ {key.s} |-> n.data[k]]
              IN  IF n.kind = "Document" THEN clone(n, data)
                  ELSE Eff(n, Ok(ObjectInit(data)))
    ELSE IF n.kind = "Array"
    THEN IF key.t # "int" THEN Eff(n, Raise("TypeError"))
         ELSE LET p == ListPos(Len(n.elems), key.i)
              IN  IF p = 0 THEN Eff(n, Raise("IndexError"))
                  ELSE Eff(n, Ok(ArrayInit(RemoveAt(n.elems, p))))
    ELSE Eff(n, Raise("AttributeError"))

\* The container n holding, at key, the object c instead of its child: how n
\* looks to its holders when a call on the child left the child as c.
WithChild(n, key, c) ==
    IF IsDict(n) THEN [n EXCEPT !.data[key.s] = c]
    ELSE [n EXCEPT !.elems[ListPos(Len(n.elems), key.i)] = c]

RECURSIVE set_in(_, _, _)
\* node.set_in(keys, value): the value itself for no keys; otherwise the
\* update is made in the child and the child replaced, level by level.
set_in(n, ks, value) ==
    IF ks = <<>> THEN Eff(n, Ok(value))
    ELSE IF Len(ks) = 1 THEN Set(n, ks[1], value)
    ELSE LET got == GetItem(n, ks[1])
         IN  IF ~got.ok THEN Eff(n, got)
             ELSE IF ~IsContainer(got.value) THEN Eff(n, Raise("KeyError"))
             ELSE LET sub == set_in(got.value, Tail(ks), value)
                      n1 == WithChild(n, ks[1], sub.recv)
                  IN  IF ~sub.res.ok THEN Eff(n1, sub.res)
                      ELSE LET top == Set(n1, ks[1], sub.res.value)
                           IN  Eff(top.recv, top.res)

RECURSIVE delete_in(_, _)
\* node.delete_in(keys): None for no keys; otherwise as set_in, removing.
delete_in(n, ks) ==
    IF ks = <<>> THEN Eff(n, Ok(None))
    ELSE IF Len(ks) = 1 THEN Delete(n, ks[1])
    ELSE LET got == GetItem(n, ks[1])
         IN  IF ~got.ok THEN Eff(n, got)
             ELSE IF ~IsContainer(got.value) THEN Eff(n, Raise("KeyError"))
             ELSE LET sub == delete_in(got.value, Tail(ks))
                      n1 == WithChild(n, ks[1], sub.recv)
                  IN  IF ~sub.res.ok THEN Eff(n1, sub.res)
                      ELSE LET top == Set(n1, ks[1], sub.res.value)
                           IN  Eff(top.recv, top.res)

RECURSIVE get_in(_, _)
\* node.get_in(keys): descend key by key.
get_in(n, ks) ==
    IF ks = <<>> THEN Ok(n)
    ELSE LET got == GetItem(n, ks[1])
         IN  IF got.ok THEN get_in(got.value, Tail(ks)) ELSE got

\* ------------------------------------------------------ dotted_path_to_list

\* A path is a sequence of characters; a segment is one too.
Digits == {"0", "1", "2", "3"}

DigitValue(c) == CASE c = "0" -> 0 [] c = "1" -> 1 [] c = "2" -> 2 [] c = "3" -> 3

RECURSIVE SplitFrom(_, _)
SplitFrom(rest, cur) ==
    IF rest = <<>> THEN <<cur>>
    ELSE IF Head(rest) = "." THEN <<cur>> \o SplitFrom(Tail(rest), <<>>)
    ELSE SplitFrom(Tail(rest), Append(cur, Head(rest)))

\* path.split('.')
split(path) == SplitFrom(path, <<>>)

RECURSIVE Join(_)
\* The string a sequence of characters spells.
Join(seg) == IF seg = <<>> THEN "" ELSE Head(seg) \o Join(Tail(seg))

RECURSIVE DigitsValue(_, _)
DigitsValue(ds, acc) ==
    IF ds = <<>> THEN acc
    ELSE DigitsValue(Tail(ds), 10 * acc + DigitValue(Head(ds)))

\* int(key) for a string of the model's characters: an optional sign and at
\* least one digit, else ValueError.
int(seg) ==
    LET neg == seg # <<>> /\ Head(seg) = "-"
        ds == IF neg THEN Tail(seg) ELSE seg
    IN  IF ds # <<>> /\ \A i \in 1..Len(ds) : ds[i] \in Digits
        THEN Ok(IF neg THEN 0 - DigitsValue(ds, 0) ELSE DigitsValue(ds, 0))
        ELSE Raise("ValueError")

\* The coercion tried whatever the active node is.
CoerceKeyAnywhere(active, seg) ==
    IF int(seg).ok THEN IntKey(int(seg).value) ELSE StrKey(Join(seg))

\* Lines 57-63: an array lookup is coerced to an integer when it parses.
CoerceKey(active, seg) ==
    IF active.kind = "Array" /\ int(seg).ok THEN IntKey(int(seg).value)
    ELSE StrKey(Join(seg))

\* The exceptions the lookup of line 68 may raise and line 69 swallows.
PathCaught == {"KeyError", "IndexError", "ValueError", "TypeError"}

RECURSIVE PathWalk(_, _, _, _)
\* The loop of lines 56-70 from index idx on.
PathWalk(segs, idx, active, ks) ==
    IF idx > Len(segs) THEN Ok(ks)
    ELSE LET key == CoerceKey(active, segs[idx])
             ks1 == [ks EXCEPT ![idx] = key]
             got == GetItem(active, key)
         IN  IF got.ok THEN PathWalk(segs, idx + 1, got.value, ks1)
             ELSE IF got.exc \in PathCaught THEN Ok(ks1)
             ELSE Raise(got.exc)

dotted_path_to_list(doc, path) ==
    LET segs == split(path)
    IN  PathWalk(segs, 1, doc, [i \in 1..Len(segs) |-> StrKey(Join(segs[i]))])

\* --------------------------------------------------------- Document.action

\* The descent taking any container for the parent document.
IsOwnerAnyContainer(n) == IsContainer(n)

\* The test for the link's parent document in the descent (line 177).
IsOwner(n) == n.kind = "Document"

\* keys[:idx] with idx counted from 0.
OwnerKeysFromZero(ks, idx) == SubSeq(ks, 1, idx - 1)

\* keys[:idx] of line 179, idx counting from 1.
OwnerKeys(ks, idx) == SubSeq(ks, 1, idx)

RECURSIVE DescendFrom(_, _, _, _, _)
\* The loop of lines 175-179 from index idx on: the node reached, the last
\* Document met and the keys that lead to it; or the exception of node[key].
DescendFrom(ks, idx, n, doc, doc_keys) ==
    IF idx > Len(ks)
    THEN [ok |-> TRUE, node |-> n, document |-> doc, document_keys |-> doc_keys]
    ELSE LET got == GetItem(n, ks[idx])
         IN  IF ~got.ok THEN Raise(got.exc)
             ELSE IF IsOwner(got.value)
             THEN DescendFrom(ks, idx + 1, got.value, got.value, OwnerKeys(ks, idx))
             ELSE DescendFrom(ks, idx + 1, got.value, doc, doc_keys)

\* str.lower() on the action verbs of the model.
lower(s) ==
    CASE s = "PATCH" -> "patch"
      [] s = "Delete" -> "delete"
      [] OTHER -> s

InlineVerbs == {"put", "patch", "delete"}

\* The verb deciding before the declared transition is looked at.
EffectiveTransitionVerbFirst(link) ==
    IF lower(link.action) \in InlineVerbs THEN "inline" ELSE link.transition

\* Lines 196-198: the transition the result is applied with.
EffectiveTransition(link) ==
    IF link.transition = "" /\ lower(link.action) \in InlineVerbs
    THEN "inline"
    ELSE link.transition

RECURSIVE IsParameterValue(_)
\* A parameter value the validation accepts: a primitive, or a list or dict of
\* accepted values.
IsParameterValue(v) ==
    CASE v.kind \in {"String", "None", "Integer", "Float", "Boolean"} -> TRUE
      [] v.kind = "list" -> \A i \in 1..Len(v.list) : IsParameterValue(v.list[i])
      [] v.kind = "dict" -> \A k \in DOMAIN v.items : IsParameterValue(v.items[k])
      [] OTHER -> FALSE

\* coreapi.validation.validate_parameters(link, parameters).
validate_parameters(link, parameters) ==
    LET names == {link.fields[i].name : i \in 1..Len(link.fields)}
        needed == {link.fields[i].name :
                      i \in {j \in 1..Len(link.fields) : link.fields[j].required}}
    IN  IF \E p \in DOMAIN parameters : p \notin names
        THEN Raise("ValidationError")
        ELSE IF \E r \in needed : r \notin DOMAIN parameters
        THEN Raise("ValidationError")
        ELSE IF \E p \in DOMAIN parameters : ~IsParameterValue(parameters[p])
        THEN Raise("ValidationError")
        ELSE Ok(None)

\* Lines 200-204: what action returns for the result ret of the link.
ApplyTransition(self, link, doc_keys, r) ==
    IF EffectiveTransition(link) = "inline"
    THEN IF r = None
         THEN [op |-> "delete_in", eff |-> delete_in(self, doc_keys),
               messages |-> <<>>]
         ELSE [op |-> "set_in", eff |-> set_in(self, doc_keys, r),
               messages |-> <<>>]
    ELSE [op |-> "none", eff |-> Eff(self, Ok(r)), messages |-> <<>>]

\* The Error test made only on the way out of a detached transition.
ActionResultUpdateFirst(self, link, doc_keys, r) ==
    IF r.kind = "Error" /\ EffectiveTransition(link) # "inline"
    THEN [op |-> "none", eff |-> Eff(self, Raise("ErrorMessage")),
          messages |-> r.messages]
    ELSE ApplyTransition(self, link, doc_keys, r)

\* Lines 191-204: an Error result raises ErrorMessage with its messages;
\* any other result is applied with the link's transition.
ActionResult(self, link, doc_keys, r) ==
    IF r.kind = "Error"
    THEN [op |-> "none", eff |-> Eff(self, Raise("ErrorMessage")),
          messages |-> r.messages]
    ELSE ApplyTransition(self, link, doc_keys, r)

\* ---------------------------------------------------------------- inputs

Actions == {"get", "put", "PATCH", "Delete"}

Transitions == {"", "inline", "follow", "delete"}

FieldLists == {<<>>, <<required("param")>>}

Links == {LinkInit("http://example.org/", a, t, f) :
             a \in Actions, t \in Transitions, f \in FieldLists}

Sibling == Integer(1)

OtherSibling == Integer(2)

\* A container of the given kind holding child (at "n", or at index 1) among
\* sibling values (at "x", or at indexes 0 and 2).
Wrap(kind, child) ==
    CASE kind = "Document" ->
            DocumentInit("nested", "", ("n" :> child) @@ ("x" :> Sibling)).value
      [] kind = "Object" -> ObjectInit(("n" :> child) @@ ("x" :> Sibling))
      [] kind = "Array" -> ArrayInit(<<Sibling, child, OtherSibling>>)

RECURSIVE Build(_, _)
Build(shape, link) ==
    IF shape = <<>> THEN link ELSE Wrap(Head(shape), Build(Tail(shape), link))

ContainerKinds == {"Document", "Object", "Array"}

Shapes == UNION {[1..n -> ContainerKinds] : n \in 0..MaxDepth}

\* A root document in the manner of the tests' fixture: the link below the
\* containers of `shape`.
Root(shape, link) ==
    DocumentInit("root", "Root",
                 ("n" :> Build(shape, link)) @@ ("x" :> Sibling)).value

Roots == {Root(sh, l) : sh \in Shapes, l \in Links}

KeyAlphabet == {StrKey("n"), IntKey(1), IntKey(3)}

KeyLists == UNION {[1..n -> KeyAlphabet] : n \in 0..(MaxDepth + 1)}

KeyChar(key) ==
    IF key.t = "str" THEN key.s
    ELSE CASE key.i = 0 -> "0" [] key.i = 1 -> "1" [] key.i = 2 -> "2"
           [] key.i = 3 -> "3"

RECURSIVE Dotted(_)
\* The dotted notation of a key list.
Dotted(ks) ==
    IF ks = <<>> THEN <<>>
    ELSE IF Len(ks) = 1 THEN <<KeyChar(ks[1])>>
    ELSE <<KeyChar(ks[1]), ".">> \o Dotted(Tail(ks))

KeyArgs ==
    {[shape |-> "list", list |-> ks] : ks \in KeyLists}
    \cup {[shape |-> "str", path |-> Dotted(ks)] : ks \in KeyLists}
    \cup {[shape |-> "list", list |-> <<BadKey>>],
          [shape |-> "list", list |-> <<StrKey("n"), BadKey>>],
          [shape |-> "other"]}

Kwargs ==
    {EmptyData,
     "param" :> Integer(123),
     "param" :> PlainList(<<Foreign>>)}

\* What a link's func may hand back.
HandlerResults ==
    {None,
     Integer(7),
     DocumentInit("", "", "new" :> Integer(123)).value,
     ErrorInit(<<"bad">>)}

\* ------------------------------------------------------------------ steps

NoOutcome ==
    [kind |-> "none", exc |-> "", phase |-> "", messages |-> <<>>,
     value |-> None, op |-> "none"]

Raised(exc, phase, messages) ==
    [kind |-> "raised", exc |-> exc, phase |-> phase, messages |-> messages,
     value |-> None, op |-> "none"]

Returned(value, op) ==
    [kind |-> "returned", exc |-> "", phase |-> "", messages |-> <<>>,
     value |-> value, op |-> op]

Init ==
    /\ root \in Roots
    /\ origRoot = root
    /\ pc = "idle"
    /\ keysArg = [shape |-> "other"]
    /\ keys = <<>>
    /\ kwargs = EmptyData
    /\ node = None
    /\ document = None
    /\ document_keys = <<>>
    /\ ret = None
    /\ calls = 0
    /\ handlerDoc = None
    /\ outcome = NoOutcome
    /\ updated = FALSE
    /\ input = None
    /\ output = None

\* Lines 157-167: the call starts; a dotted string becomes a key list; the
\* shape of keys is checked.
Begin(arg) ==
    /\ pc = "idle"
    /\ keysArg' = arg
    /\ LET norm == IF arg.shape = "str"
                   THEN dotted_path_to_list(root, arg.path)
                   ELSE Ok(arg)
       IN  IF ~norm.ok
           THEN /\ outcome' = Raised(norm.exc, "keys", <<>>)
                /\ pc' = "done"
                /\ keys' = keys
           ELSE LET ks == IF arg.shape = "str" THEN norm.value
                          ELSE IF arg.shape = "list" THEN arg.list
                          ELSE <<>>
                IN  IF arg.shape = "other"
                       \/ \E i \in 1..Len(ks) : ks[i].t \notin {"str", "int"}
                    THEN /\ outcome' = Raised("TypeError", "keys", <<>>)
                         /\ pc' = "done"
                         /\ keys' = keys
                    ELSE /\ outcome' = outcome
                         /\ pc' = "descend"
                         /\ keys' = ks
    /\ UNCHANGED <<root, origRoot, kwargs, node, document, document_keys, ret,
                   calls, handlerDoc, updated, input, output>>

\* Lines 172-179.
Descend ==
    /\ pc = "descend"
    /\ LET d == DescendFrom(keys, 1, root, root, <<>>)
       IN  IF d.ok
           THEN /\ node' = d.node
                /\ document' = d.document
                /\ document_keys' = d.document_keys
                /\ pc' = "link"
                /\ outcome' = outcome
           ELSE /\ outcome' = Raised(d.exc, "descent", <<>>)
                /\ pc' = "done"
                /\ UNCHANGED <<node, document, document_keys>>
    /\ UNCHANGED <<root, origRoot, keysArg, keys, kwargs, ret, calls,
                   handlerDoc, updated, input, output>>

\* Lines 182-186.
CheckLink ==
    /\ pc = "link"
    /\ IF node.kind = "Link"
       THEN pc' = "validate" /\ outcome' = outcome
       ELSE pc' = "done" /\ outcome' = Raised("ValueError", "terminal", <<>>)
    /\ UNCHANGED <<root, origRoot, keysArg, keys, kwargs, node, document,
                   document_keys, ret, calls, handlerDoc, updated, input, output>>

\* Link._call running the func before it validates the parameters.
ValidateAfterFunc(kw) ==
    /\ pc = "validate"
    /\ kwargs' = kw
    /\ calls' = calls + 1
    /\ LET v == validate_parameters(node, kw)
       IN  IF v.ok
           THEN pc' = "func" /\ outcome' = outcome
           ELSE pc' = "done" /\ outcome' = Raised(v.exc, "validation", <<>>)
    /\ UNCHANGED <<root, origRoot, keysArg, keys, node, document,
                   document_keys, ret, handlerDoc, updated, input, output>>

\* Line 304, in Link._call.  The keyword arguments of the call are read here
\* for the first time, so the model draws them here: kw is the **kwargs the
\* caller passed to action.
Validate(kw) ==
    /\ pc = "validate"
    /\ kwargs' = kw
    /\ LET v == validate_parameters(node, kw)
       IN  IF v.ok
           THEN pc' = "func" /\ outcome' = outcome
           ELSE pc' = "done" /\ outcome' = Raised(v.exc, "validation", <<>>)
    /\ UNCHANGED <<root, origRoot, keysArg, keys, node, document,
                   document_keys, ret, calls, handlerDoc, updated, input, output>>

\* Lines 305 and 189: the link's func runs and its result is kept.
CallFunc(r) ==
    /\ pc = "func"
    /\ calls' = calls + 1
    /\ handlerDoc' = document
    /\ ret' = r
    /\ pc' = "apply"
    /\ UNCHANGED <<root, origRoot, keysArg, keys, kwargs, node, document,
                   document_keys, outcome, updated, input, output>>

\* Lines 191-204.  root' is the receiver as the call leaves it.
Apply ==
    /\ pc = "apply"
    /\ LET a == ActionResult(root, node, document_keys, ret)
       IN  /\ root' = a.eff.recv
           /\ outcome' = IF a.eff.res.ok
                         THEN Returned(a.eff.res.value, a.op)
                         ELSE Raised(a.eff.res.exc,
                                     IF ret.kind = "Error" THEN "result"
                                     ELSE "update",
                                     a.messages)
    /\ pc' = "done"
    /\ UNCHANGED <<origRoot, keysArg, keys, kwargs, node, document,
                   document_keys, ret, calls, handlerDoc, updated, input, output>>

\* The caller has the result or the exception; the locals are gone.
Finish ==
    /\ pc = "done"
    /\ pc' = "idle"
    /\ keysArg' = [shape |-> "other"]
    /\ keys' = <<>>
    /\ kwargs' = EmptyData
    /\ node' = None
    /\ document' = None
    /\ document_keys' = <<>>
    /\ ret' = None
    /\ calls' = 0
    /\ handlerDoc' = None
    /\ outcome' = NoOutcome
    /\ updated' = (updated \/ outcome.op # "none")
    /\ UNCHANGED <<root, origRoot, input, output>>

Next ==
    \/ \E arg \in KeyArgs : Begin(arg)
    \/ Descend
    \/ CheckLink
    \/ \E kw \in Kwargs : Validate(kw)
    \/ \E r \in HandlerResults : CallFunc(r)
    \/ Apply
    \/ Finish

Spec == Init /\ [][Next]_vars

\* -------------------------------------- dotted_path_to_list on its own

PathChars == {"n", ".", "1", "-"}

Paths == UNION {[1..n -> PathChars] : n \in 0..MaxPathLen}

PathShapes == UNION {[1..n -> ContainerKinds] : n \in 0..MaxPathDepth}

PathRoots ==
    {Root(sh, LinkInit("http://example.org/", "get", "", <<>>)) : sh \in PathShapes}

InitPath ==
    /\ root \in PathRoots
    /\ origRoot = root
    /\ pc = "idle"
    /\ keysArg = [shape |-> "other"]
    /\ keys = <<>>
    /\ kwargs = EmptyData
    /\ node = None
    /\ document = None
    /\ document_keys = <<>>
    /\ ret = None
    /\ calls = 0
    /\ handlerDoc = None
    /\ outcome = NoOutcome
    /\ updated = FALSE
    /\ input \in Paths
    /\ output = None

\* dotted_path_to_list(root, input)
ResolvePath ==
    /\ pc = "idle"
    /\ output' = dotted_path_to_list(root, input)
    /\ pc' = "applied"
    /\ UNCHANGED <<root, origRoot, keysArg, keys, kwargs, node, document,
                   document_keys, ret, calls, handlerDoc, outcome, updated, input>>

NextPath == ResolvePath

SpecPath == InitPath /\ [][NextPath]_vars

\* ------------------------------------------------ constructors on their own

\* Values that are no containers: three of the Value union, an Error, and one
\* of no Core API type.
RawAtoms ==
    {None, Integer(1), LinkInit("http://example.org/", "get", "", <<>>),
     ErrorInit(<<"bad">>), Foreign}

RECURSIVE RawValues(_)
\* Atoms and plain dicts and lists of them, nested to depth d.
RawValues(d) ==
    IF d = 0 THEN RawAtoms
    ELSE RawAtoms
         \cup {PlainDict("a" :> v) : v \in RawValues(d - 1)}
         \cup {PlainList(<<v>>) : v \in RawValues(d - 1)}

InitConstruct ==
    /\ root = None
    /\ origRoot = None
    /\ pc = "idle"
    /\ keysArg = [shape |-> "other"]
    /\ keys = <<>>
    /\ kwargs = EmptyData
    /\ node = None
    /\ document = None
    /\ document_keys = <<>>
    /\ ret = None
    /\ calls = 0
    /\ handlerDoc = None
    /\ outcome = NoOutcome
    /\ updated = FALSE
    /\ input \in {[type |-> t, value |-> v] :
                    t \in ContainerKinds, v \in RawValues(MaxRawDepth)}
    /\ output = None

\* Document(content={'a': v}), Object({'a': v}) or Array([v]).
Construct ==
    /\ pc = "idle"
    /\ output' = CASE input.type = "Document" ->
                        DocumentInit("", "", "a" :> input.value)
                    [] input.type = "Object" -> Ok(ObjectInit("a" :> input.value))
                    [] input.type = "Array" -> Ok(ArrayInit(<<input.value>>))
    /\ pc' = "applied"
    /\ UNCHANGED <<root, origRoot, keysArg, keys, kwargs, node, document,
                   document_keys, ret, calls, handlerDoc, outcome, updated, input>>

NextConstruct == Construct

SpecConstruct == InitConstruct /\ [][NextConstruct]_vars

\* ------------------------------------------------- Document.action: claims

\* The verbs that make a link inline, in the spellings of the model's links
\* and their other cases.
ClaimedInlineVerbs ==
    {"put", "Put", "PUT", "patch", "Patch", "PATCH", "delete", "Delete", "DELETE"}

\* The effective transition as the specification words it.
ClaimedTransition(link) ==
    IF link.transition # "" THEN link.transition
    ELSE IF link.action \in ClaimedInlineVerbs THEN "inline"
    ELSE ""

IsDocumentAt(r, ks, j) ==
    LET got == get_in(r, SubSeq(ks, 1, j))
    IN  got.ok /\ got.value.kind = "Document"

\* How many keys lead to the last Document on the way along ks.
ClaimedOwnerLen(r, ks) ==
    CHOOSE m \in 0..Len(ks) :
        /\ IsDocumentAt(r, ks, m)
        /\ \A j \in (m + 1)..Len(ks) : ~IsDocumentAt(r, ks, j)

ClaimedOwnerKeys(r, ks) == SubSeq(ks, 1, ClaimedOwnerLen(r, ks))

\* The func has run in this call, handed back something other than an Error,
\* and action has ended.
CallEnded == pc = "done" /\ calls = 1 /\ ret.kind # "Error"

SameHeader(old, new) ==
    /\ new.kind = old.kind
    /\ old.kind = "Document" => new.url = old.url /\ new.title = old.title

RECURSIVE EditedAt(_, _, _, _, _)
\* new is old with the entry at path P replaced by v (mode "set") or removed
\* (mode "delete"), and nothing else changed.
EditedAt(old, new, P, mode, v) ==
    /\ SameHeader(old, new)
    /\ IF IsDict(old)
       THEN LET k == P[1].s
            IN  /\ DOMAIN new.data =
                       IF Len(P) = 1 /\ mode = "delete"
                       THEN DOMAIN old.data \ {k} ELSE DOMAIN old.data
                /\ \A j \in DOMAIN old.data \ {k} : new.data[j] = old.data[j]
                /\ IF Len(P) > 1
                   THEN EditedAt(old.data[k], new.data[k], Tail(P), mode, v)
                   ELSE mode = "set" => new.data[k] = v
       ELSE LET p == P[1].i + 1
            IN  IF Len(P) = 1 /\ mode = "delete"
                THEN /\ Len(new.elems) = Len(old.elems) - 1
                     /\ \A j \in 1..Len(new.elems) :
                            new.elems[j] = old.elems[IF j < p THEN j ELSE j + 1]
                ELSE /\ Len(new.elems) = Len(old.elems)
                     /\ \A j \in 1..Len(old.elems) :
                            j # p => new.elems[j] = old.elems[j]
                     /\ IF Len(P) > 1
                        THEN EditedAt(old.elems[p], new.elems[p], Tail(P), mode, v)
                        ELSE new.elems[p] = v

C2_InlineUpdateAtPrefix ==
    (/\ CallEnded
     /\ ClaimedTransition(node) = "inline"
     /\ ClaimedOwnerLen(origRoot, keys) > 0)
    => LET P == ClaimedOwnerKeys(origRoot, keys)
       IN  /\ outcome.kind = "returned"
           /\ IF ret = None
              THEN /\ outcome.op = "delete_in"
                   /\ EditedAt(origRoot, outcome.value, P, "delete", None)
              ELSE /\ outcome.op = "set_in"
                   /\ get_in(outcome.value, P) = Ok(ret)
                   /\ EditedAt(origRoot, outcome.value, P, "set", ret)

C2_Witness ==
    /\ CallEnded
    /\ ClaimedTransition(node) = "inline"
    /\ Len(document_keys) = 2
    /\ outcome.op = "set_in"
    /\ get_in(outcome.value, document_keys) = Ok(ret)
    /\ outcome.value # origRoot

\* C3: for keys that lead to a Link, the document given to the func is the
\* last Document on the path (the root if there is none after it) and the
\* prefix kept for the update is the keys that lead to that Document; no
\* Object or Array, and no Document above a deeper one, is the owner.
C3_OwnerIsNearestDocument ==
    (pc \in {"validate", "func", "apply", "done"} /\ node.kind = "Link")
    => LET P == ClaimedOwnerKeys(root, keys)
       IN  /\ document_keys = P
           /\ document = get_in(root, P).value
           /\ document.kind = "Document"
           /\ calls = 1 => handlerDoc = get_in(root, P).value

C3_Witness ==
    /\ pc = "apply"
    /\ Len(keys) = 3
    /\ get_in(root, SubSeq(keys, 1, 1)).value.kind = "Document"
    /\ get_in(root, SubSeq(keys, 1, 2)).value.kind = "Array"
    /\ document_keys = SubSeq(keys, 1, 1)
    /\ handlerDoc = root.data["n"]

\* C4: when the func hands back an Error, action raises ErrorMessage with
\* exactly that Error's messages, whatever the transition and the verb; no
\* update is made, no new root comes back, and the root is as it was.
C4_ErrorResultRaises ==
    (pc = "done" /\ calls = 1 /\ ret.kind = "Error")
    => /\ outcome.kind = "raised"
       /\ outcome.exc = "ErrorMessage"
       /\ outcome.messages = ret.messages
       /\ outcome.op = "none"
       /\ root = origRoot

C4_Witness ==
    /\ pc = "done"
    /\ calls = 1
    /\ ret.kind = "Error"
    /\ node.transition = "inline"
    /\ outcome.exc = "ErrorMessage"
    /\ outcome.messages = <<"bad">>

KeysMalformed(arg) ==
    \/ arg.shape = "other"
    \/ /\ arg.shape = "list"
       /\ \E i \in 1..Len(arg.list) : arg.list[i].t \notin {"str", "int"}

\* C5: the func runs at most once in a call, and not at all when the call
\* fails earlier; the checks come in the order keys shape, descent, kind of
\* the terminal node, parameter validation, and only then the func.
C5_FuncAfterAllChecks ==
    /\ calls <= 1
    /\ calls = 1 => pc \in {"apply", "done"}
    /\ pc = "done" =>
         IF KeysMalformed(keysArg)
         THEN /\ outcome.kind = "raised" /\ outcome.exc = "TypeError"
              /\ outcome.phase = "keys" /\ calls = 0
         ELSE IF ~get_in(root, keys).ok
         THEN /\ outcome.kind = "raised" /\ outcome.phase = "descent"
              /\ outcome.exc = get_in(root, keys).exc /\ calls = 0
         ELSE IF get_in(root, keys).value.kind # "Link"
         THEN /\ outcome.kind = "raised" /\ outcome.exc = "ValueError"
              /\ outcome.phase = "terminal" /\ calls = 0
         ELSE IF ~validate_parameters(get_in(root, keys).value, kwargs).ok
         THEN /\ outcome.kind = "raised" /\ outcome.exc = "ValidationError"
              /\ outcome.phase = "validation" /\ calls = 0
         ELSE calls = 1

C5_Witness ==
    /\ pc = "done"
    /\ calls = 0
    /\ node.kind = "Link"
    /\ kwargs = ("param" :> PlainList(<<Foreign>>))
    /\ outcome.exc = "ValidationError"

\* C6: after any calls of action on a root, successful or failing, inline or
\* detached, the root and all below it are what they were at construction.
C6_ReceiverNeverChanges == root = origRoot

C6_Witness ==
    /\ pc = "done"
    /\ updated
    /\ outcome.kind = "returned"
    /\ outcome.op = "delete_in"
    /\ Len(document_keys) > 0
    /\ outcome.value # root
    /\ root = origRoot

\* C7: action raises LinkError when the result does not fit the declared
\* transition: None from a link declared follow, action, create or update, or
\* a Document from a link declared delete.
C7_InvalidTransitionRaisesLinkError ==
    (/\ pc = "done"
     /\ calls = 1
     /\ \/ node.transition \in {"follow", "action", "create", "update"} /\ ret = None
        \/ node.transition = "delete" /\ ret.kind = "Document")
    => outcome.kind = "raised" /\ outcome.exc = "LinkError"

\* C10: when the nearest enclosing Document of the link is the root itself, an
\* inline action returns None for a None result and otherwise the result as
\* the new document in place of the whole root; it does not raise.
C10_InlineAtRoot ==
    (/\ CallEnded
     /\ ClaimedTransition(node) = "inline"
     /\ ClaimedOwnerLen(origRoot, keys) = 0)
    => /\ outcome.kind = "returned"
       /\ outcome.op # "none"
       /\ outcome.value = ret

C10_Witness ==
    /\ CallEnded
    /\ ClaimedTransition(node) = "inline"
    /\ Len(keys) = 2
    /\ root.data["n"].kind = "Object"
    /\ document_keys = <<>>
    /\ ret = None
    /\ outcome.kind = "returned"
    /\ outcome.value = None

\* ----------------------------------------------- dotted_path_to_list: claim

Dots(path) == {p \in 1..Len(path) : path[p] = "."}

\* Where the n-th dot of path is.
NthDot(path, n) ==
    CHOOSE p \in Dots(path) : Cardinality({q \in Dots(path) : q <= p}) = n

\* The i-th dot-separated segment of path.
ClaimedSegment(path, i) ==
    LET first == IF i = 1 THEN 1 ELSE NthDot(path, i - 1) + 1
        last == IF i = Cardinality(Dots(path)) + 1 THEN Len(path)
                ELSE NthDot(path, i) - 1
    IN  SubSeq(path, first, last)

\* C8: dotted_path_to_list gives one element per dot-separated segment, in
\* order; element i is the integer the segment spells exactly when all lookups
\* before it succeeded, the node they reach is an Array and the segment parses
\* as an integer, and is the segment's string otherwise; after a failed lookup
\* the rest stays raw, and the function does not fail.
C8_DottedPathBestEffort ==
    pc = "applied" =>
        /\ output.ok
        /\ Len(output.value) = Cardinality(Dots(input)) + 1
        /\ \A i \in 1..Len(output.value) :
               LET seg == ClaimedSegment(input, i)
                   before == get_in(root, SubSeq(output.value, 1, i - 1))
               IN  IF before.ok /\ before.value.kind = "Array" /\ int(seg).ok
                   THEN output.value[i] = IntKey(int(seg).value)
                   ELSE output.value[i] = StrKey(Join(seg))

C8_Witness ==
    /\ pc = "applied"
    /\ input = <<"n", ".", "1", "1", ".", "1">>
    /\ root.data["n"].kind = "Array"
    /\ output = Ok(<<StrKey("n"), IntKey(11), StrKey("1")>>)

\* ------------------------------------------------------ constructors: claim

RECURSIVE InValueUnion(_)
\* A value of the Value union, plain containers counted by what they hold.
InValueUnion(v) ==
    CASE v.kind \in {"None", "Boolean", "Integer", "Float", "String", "Link",
                     "Error"} -> TRUE
      [] v.kind = "dict" -> \A k \in DOMAIN v.items : InValueUnion(v.items[k])
      [] v.kind = "list" -> \A i \in 1..Len(v.list) : InValueUnion(v.list[i])
      [] OTHER -> FALSE

\* C9: constructing a Document, Object or Array fails when it holds, at any
\* depth, a value outside the Value union, and succeeds when all it holds is
\* in the union, Error values included.
C9_ConstructionChecksValues ==
    pc = "applied" => (output.ok <=> InValueUnion(input.value))

====
